---- MODULE Spec2Model ----
(***************************************************************************)
(* Session store (services/conversationManager.js) and message dispatcher  *)
(* (the webhook handler) of the WhatsApp feedback collection flow.         *)
(*                                                                         *)
(* Time is counted in hours.  A handler runs without interruption up to    *)
(* its first await, and the only awaits are the outbound sends that end a  *)
(* handler, so one inbound message is one action whose inputs are the      *)
(* message and the outcome of the sends.  ConcSpec splits the handler at   *)
(* its awaits and lets several calls be suspended at once.                 *)
(* Strings that the code trims, lower-cases or compares are sequences of   *)
(* one-character strings.                                                  *)
(***************************************************************************)
EXTENDS Integers, Sequences, FiniteSets, TLC

VARIABLES sessions, now, last, inflight

vars == <<sessions, now, last, inflight>>

(* ---------------------------- bounds ----------------------------------- *)

\* The clock stops at MaxTime hours.
MaxTime == 13

\* Hours that may pass between two operations.
Elapsed == {12, 13}

Users == {"u1", "u2"}

\* Text bodies of inbound messages.
Bodies ==
  { <<"h", "i">>,
    <<" ", "H", "I", " ">>,
    <<" ", "A", "l", " ">>,
    <<" ">> }

ImageIds == {"img-42"}

(* ------------------------- program constants --------------------------- *)

\* this.sessionTimeout = 12 * 60 * 60 * 1000 ms
sessionTimeout == 12

\* Math.min(session.step + 1, 4)
MaxStep == 4

(* ----------------------------- strings --------------------------------- *)

Whitespace == {" "}

\* String.prototype.toLowerCase on one character
LowerChar(c) ==
  CASE c = "H" -> "h"
    [] c = "I" -> "i"
    [] c = "A" -> "a"
    [] OTHER -> c

toLowerCase(s) == [i \in 1..Len(s) |-> LowerChar(s[i])]

RECURSIVE trimStart(_)
trimStart(s) ==
  IF s # <<>> /\ Head(s) \in Whitespace THEN trimStart(Tail(s)) ELSE s

RECURSIVE trimEnd(_)
trimEnd(s) ==
  IF s # <<>> /\ s[Len(s)] \in Whitespace
    THEN trimEnd(SubSeq(s, 1, Len(s) - 1))
    ELSE s

\* trim that strips the leading whitespace only.
trim_StartOnly(s) == trimStart(s)

\* String.prototype.trim
trim(s) == trimEnd(trimStart(s))

(* ------------------------------ Map ------------------------------------ *)

\* sessions is a Map userPhone -> session: a function whose domain is the
\* set of keys present.
MapHas(S, k) == k \in DOMAIN S

MapSet(S, k, v) == [x \in DOMAIN S \cup {k} |-> IF x = k THEN v ELSE S[x]]

MapDelete(S, k) == [x \in DOMAIN S \ {k} |-> S[x]]

EmptyMap == [x \in {} |-> 0]

\* A value or null/undefined: the sequence of zero or one values.
Null == <<>>

Some(v) == <<v>>

MapGet(S, k) == IF MapHas(S, k) THEN Some(S[k]) ELSE Null

(* --------------------- ConversationStateManager ------------------------ *)
\* Every operation takes the Map S and the clock t (new Date()) and yields
\* the Map after the call, the value returned (ret) and the completion
\* records written by logCompletedFeedback (log).

NewSession(t) ==
  [ step            |-> 1,
    name            |-> <<>>,
    feedback        |-> <<>>,
    profileImageUrl |-> "",
    createdAt       |-> t,
    lastActivity    |-> t ]

\* createSession that keeps the entry already stored for the key.
createSession_KeepsExisting(S, userPhone, t) ==
  IF MapHas(S, userPhone)
    THEN [ S |-> S, ret |-> Some(S[userPhone]), log |-> <<>> ]
    ELSE [ S   |-> MapSet(S, userPhone, NewSession(t)),
           ret |-> Some(NewSession(t)),
           log |-> <<>> ]

createSession(S, userPhone, t) ==
  [ S   |-> MapSet(S, userPhone, NewSession(t)),
    ret |-> Some(NewSession(t)),
    log |-> <<>> ]

\* isSessionExpired with >= for >: a session idle for exactly 12 hours expires.
isSessionExpired_AtBoundary(session, t) ==
  LET timeDiff == t - session.lastActivity
  IN  timeDiff >= sessionTimeout

\* isSessionExpired comparing hours with a timeout taken in minutes.
isSessionExpired_WrongUnit(session, t) ==
  LET timeDiff == t - session.lastActivity
  IN  timeDiff > sessionTimeout * 60

isSessionExpired(session, t) ==
  LET timeDiff == t - session.lastActivity
  IN  timeDiff > sessionTimeout

\* getSession without the expiry test: the stored session is returned as is.
getSession_KeepsExpired(S, userPhone, t) ==
  IF ~MapHas(S, userPhone)
    THEN createSession(S, userPhone, t)
    ELSE LET touched == [S[userPhone] EXCEPT !.lastActivity = t]
         IN  [ S   |-> MapSet(S, userPhone, touched),
               ret |-> Some(touched),
               log |-> <<>> ]

getSession(S, userPhone, t) ==
  LET found   == MapGet(S, userPhone)
      expired == found # Null /\ isSessionExpired(found[1], t)
      S1      == IF expired THEN MapDelete(S, userPhone) ELSE S
      session == IF expired THEN Null ELSE found
  IN  IF session = Null
        THEN createSession(S1, userPhone, t)
        ELSE LET touched == [session[1] EXCEPT !.lastActivity = t]
             IN  [ S   |-> MapSet(S1, userPhone, touched),
                   ret |-> Some(touched),
                   log |-> <<>> ]

\* Object.assign(session, updates, { lastActivity: new Date() })
Assign(session, updates, t) ==
  [f \in DOMAIN session |->
     IF f = "lastActivity" THEN t
     ELSE IF f \in DOMAIN updates THEN updates[f]
     ELSE session[f]]

\* updateSession that applies the updates to the session it creates.
updateSession_AppliesToNew(S, userPhone, updates, t) ==
  LET base    == IF MapHas(S, userPhone) THEN S[userPhone] ELSE NewSession(t)
      session == Assign(base, updates, t)
  IN  [ S   |-> MapSet(S, userPhone, session),
        ret |-> Some(session),
        log |-> <<>> ]

updateSession(S, userPhone, updates, t) ==
  IF ~MapHas(S, userPhone)
    THEN createSession(S, userPhone, t)
    ELSE LET session == Assign(S[userPhone], updates, t)
         IN  [ S   |-> MapSet(S, userPhone, session),
               ret |-> Some(session),
               log |-> <<>> ]

Min(a, b) == IF a < b THEN a ELSE b

\* advanceStep that wraps around to 1 after step 2.
advanceStep_Wraps(S, userPhone, t) ==
  LET got      == getSession(S, userPhone, t)
      nextStep == IF got.ret[1].step >= 2 THEN 1 ELSE got.ret[1].step + 1
  IN  updateSession(got.S, userPhone, [step |-> nextStep], t)

\* advanceStep without the ceiling.
advanceStep_NoClamp(S, userPhone, t) ==
  LET got      == getSession(S, userPhone, t)
      nextStep == got.ret[1].step + 1
  IN  updateSession(got.S, userPhone, [step |-> nextStep], t)

advanceStep(S, userPhone, t) ==
  LET got      == getSession(S, userPhone, t)
      nextStep == Min(got.ret[1].step + 1, MaxStep)
  IN  updateSession(got.S, userPhone, [step |-> nextStep], t)

\* The record logCompletedFeedback prints; sessionDuration is in minutes.
logCompletedFeedback(userPhone, session, t) ==
  [ userPhone       |-> userPhone,
    name            |-> session.name,
    feedback        |-> session.feedback,
    profileImageUrl |-> session.profileImageUrl,
    sessionDuration |-> (t - session.createdAt) * 60 ]

\* completeSession that removes the entry without logging the record.
completeSession_NoLog(S, userPhone, t) ==
  IF ~MapHas(S, userPhone)
    THEN [ S |-> S, ret |-> Null, log |-> <<>> ]
    ELSE [ S   |-> MapDelete(S, userPhone),
           ret |-> Some(S[userPhone]),
           log |-> <<>> ]

\* completeSession that logs the record but leaves the entry in the Map.
completeSession_KeepsEntry(S, userPhone, t) ==
  IF ~MapHas(S, userPhone)
    THEN [ S |-> S, ret |-> Null, log |-> <<>> ]
    ELSE [ S   |-> S,
           ret |-> Some(S[userPhone]),
           log |-> <<logCompletedFeedback(userPhone, S[userPhone], t)>> ]

\* completeSession with the test inverted: a stored session is not found.
completeSession_MissesEntry(S, userPhone, t) ==
  IF MapHas(S, userPhone)
    THEN [ S |-> S, ret |-> Null, log |-> <<>> ]
    ELSE [ S   |-> MapDelete(S, userPhone),
           ret |-> Some(S[userPhone]),
           log |-> <<logCompletedFeedback(userPhone, S[userPhone], t)>> ]

completeSession(S, userPhone, t) ==
  IF ~MapHas(S, userPhone)
    THEN [ S |-> S, ret |-> Null, log |-> <<>> ]
    ELSE [ S   |-> MapDelete(S, userPhone),
           ret |-> Some(S[userPhone]),
           log |-> <<logCompletedFeedback(userPhone, S[userPhone], t)>> ]

\* The loop of cleanupExpiredSessions over the entries still to visit.
RECURSIVE cleanupLoop(_, _, _, _)
cleanupLoop(S, keys, cleanedCount, t) ==
  IF keys = {}
    THEN [ S |-> S, ret |-> cleanedCount, log |-> <<>> ]
    ELSE LET userPhone == CHOOSE k \in keys : TRUE
         IN  IF isSessionExpired(S[userPhone], t)
               THEN cleanupLoop(MapDelete(S, userPhone), keys \ {userPhone},
                                cleanedCount + 1, t)
               ELSE cleanupLoop(S, keys \ {userPhone}, cleanedCount, t)

cleanupExpiredSessions(S, t) == cleanupLoop(S, DOMAIN S, 0, t)

\* resetSession that puts the step back to 1 and keeps the collected fields.
resetSession_KeepsFields(S, userPhone, t) ==
  updateSession(S, userPhone, [step |-> 1], t)

resetSession(S, userPhone, t) ==
  updateSession(S, userPhone,
                [ step |-> 1, name |-> <<>>, feedback |-> <<>>,
                  profileImageUrl |-> "" ], t)

(* ------------------------- collaborators ------------------------------- *)

\* getTemplate(key, ...args): the dispatcher only selects the key and the
\* argument; rendering is the template module's.
getTemplate(key, arg) == [key |-> key, arg |-> arg]

\* One call of sendTextMessage(to, response); ok is whether it resolved.
sendTextMessage(to, response, ok) == [to |-> to, response |-> response, ok |-> ok]

(* --------------------------- inbound messages -------------------------- *)

TextMessage(u, b) ==
  [from |-> u, type |-> "text", text |-> Some([body |-> b]), image |-> Null]

ImageMessage(u, id) ==
  [from |-> u, type |-> "image", text |-> Null, image |-> Some([id |-> id])]

\* A message of another type (audio, video, ...): neither text nor image.
OtherMessage(u, type) ==
  [from |-> u, type |-> type, text |-> Null, image |-> Null]

\* Inbound messages as the webhook delivers them: text.body is present when
\* type is text, image.id when type is image.
Messages ==
  { TextMessage(u, b) : u \in Users, b \in Bodies }
    \cup { ImageMessage(u, id) : u \in Users, id \in ImageIds }
    \cup { OtherMessage(u, "audio") : u \in Users }

NoMsg == OtherMessage("-", "none")

(* ----------------------------- dispatcher ------------------------------ *)
\* A step handler yields the Map after its synchronous part, the records
\* logged, the reply it selected (Null when it threw before selecting one)
\* and whether it threw before the send.

Handled(r, reply) ==
  [ S |-> r.S, log |-> r.log, reply |-> Some(reply), threw |-> FALSE ]

\* handleNameCollection asking for an image when the message is no text.
handleNameCollection_WrongPrompt(S, message, userPhone, t) ==
  IF message.type # "text" \/ message.text = Null
    THEN [ S |-> S, log |-> <<>>,
           reply |-> Some(getTemplate("needImage", <<>>)), threw |-> FALSE ]
    ELSE LET name == trim(message.text[1].body)
             upd  == updateSession(S, userPhone, [name |-> name], t)
             adv  == advanceStep(upd.S, userPhone, t)
         IN  Handled(adv, getTemplate("nameReceived", name))

handleNameCollection(S, message, userPhone, t) ==
  IF message.type # "text" \/ message.text = Null
    THEN [ S |-> S, log |-> <<>>,
           reply |-> Some(getTemplate("needText", <<>>)), threw |-> FALSE ]
    ELSE LET name == trim(message.text[1].body)
             upd  == updateSession(S, userPhone, [name |-> name], t)
             adv  == advanceStep(upd.S, userPhone, t)
         IN  Handled(adv, getTemplate("nameReceived", name))

handleFeedbackCollection(S, message, userPhone, t) ==
  IF message.type # "text" \/ message.text = Null
    THEN [ S |-> S, log |-> <<>>,
           reply |-> Some(getTemplate("needText", <<>>)), threw |-> FALSE ]
    ELSE LET feedback == trim(message.text[1].body)
             upd      == updateSession(S, userPhone, [feedback |-> feedback], t)
             adv      == advanceStep(upd.S, userPhone, t)
         IN  Handled(adv, getTemplate("feedbackReceived", <<>>))

\* handleImageCollection that advances the step where it should complete
\* the session.
handleImageCollection_Advances(S, message, userPhone, t) ==
  IF message.type # "image" \/ message.image = Null
    THEN [ S |-> S, log |-> <<>>,
           reply |-> Some(getTemplate("needImage", <<>>)), threw |-> FALSE ]
    ELSE LET imageUrl == message.image[1].id
             upd      == updateSession(S, userPhone,
                                       [profileImageUrl |-> imageUrl], t)
             adv      == advanceStep(upd.S, userPhone, t)
         IN  Handled(adv, getTemplate("completed", adv.ret[1].name))

handleImageCollection(S, message, userPhone, t) ==
  IF message.type # "image" \/ message.image = Null
    THEN [ S |-> S, log |-> <<>>,
           reply |-> Some(getTemplate("needImage", <<>>)), threw |-> FALSE ]
    ELSE LET imageUrl == message.image[1].id
             upd      == updateSession(S, userPhone,
                                       [profileImageUrl |-> imageUrl], t)
             done     == completeSession(upd.S, userPhone, t)
         IN  IF done.ret = Null
               \* completedSession.name on null: TypeError
               THEN [ S |-> done.S, log |-> done.log,
                      reply |-> Null, threw |-> TRUE ]
               ELSE Handled(done, getTemplate("completed", done.ret[1].name))

\* The trigger test without toLowerCase.
IsTrigger_CaseSensitive(message) ==
  /\ message.type = "text"
  /\ message.text # Null
  /\ trim(message.text[1].body) = <<"h", "i">>

\* The "hi" trigger test of handleIncomingMessage.
IsTrigger(message) ==
  /\ message.type = "text"
  /\ message.text # Null
  /\ trim(toLowerCase(message.text[1].body)) = <<"h", "i">>

\* The try block of handleIncomingMessage up to the send.
route(S, message, t) ==
  LET userPhone == message.from
  IN  IF IsTrigger(message)
        THEN Handled(createSession(S, userPhone, t),
                     getTemplate("greeting", <<>>))
        ELSE LET got == getSession(S, userPhone, t)
                 step == got.ret[1].step
             IN  CASE step = 1 -> handleNameCollection(got.S, message, userPhone, t)
                   [] step = 2 -> handleFeedbackCollection(got.S, message, userPhone, t)
                   [] step = 3 -> handleImageCollection(got.S, message, userPhone, t)
                   [] OTHER    -> Handled(resetSession(got.S, userPhone, t),
                                          getTemplate("greeting", <<>>))

\* The errors a handler can end with: the TypeError of reading a property
\* of null, and the rejection of one sendTextMessage call.
TypeError == [error |-> "TypeError", response |-> getTemplate("none", <<>>)]

SendError(response) == [error |-> "sendFailed", response |-> response]

\* handleIncomingMessage whose catch block lets a failure of the
\* systemError send escape in place of the original error.
handleIncomingMessage_ThrowsSendError(S, message, t, sendOk, errOk) ==
  LET r        == route(S, message, t)
      first    == IF r.threw THEN <<>>
                  ELSE <<sendTextMessage(message.from, r.reply[1], sendOk)>>
      error    == IF r.threw THEN Some(TypeError)
                  ELSE IF ~sendOk THEN Some(SendError(r.reply[1]))
                  ELSE Null
      apology  == IF error # Null
                    THEN <<sendTextMessage(message.from,
                                           getTemplate("systemError", <<>>), errOk)>>
                    ELSE <<>>
  IN  [ S |-> r.S, log |-> r.log, sent |-> first \o apology,
        thrown |-> IF error # Null /\ ~errOk
                     THEN Some(SendError(getTemplate("systemError", <<>>)))
                     ELSE error ]

\* handleIncomingMessage that stores what the handler did only once the
\* reply has been sent.
handleIncomingMessage_CommitsAfterSend(S, message, t, sendOk, errOk) ==
  LET r        == route(S, message, t)
      first    == IF r.threw THEN <<>>
                  ELSE <<sendTextMessage(message.from, r.reply[1], sendOk)>>
      error    == IF r.threw THEN Some(TypeError)
                  ELSE IF ~sendOk THEN Some(SendError(r.reply[1]))
                  ELSE Null
      apology  == IF error # Null
                    THEN <<sendTextMessage(message.from,
                                           getTemplate("systemError", <<>>), errOk)>>
                    ELSE <<>>
  IN  [ S      |-> IF error # Null THEN S ELSE r.S,
        log    |-> IF error # Null THEN <<>> ELSE r.log,
        sent   |-> first \o apology,
        thrown |-> error ]

\* handleIncomingMessage: the synchronous part, then the send of the reply;
\* when either throws, the catch block sends systemError, swallows a failure
\* of that send, and rethrows the error it caught.
handleIncomingMessage(S, message, t, sendOk, errOk) ==
  LET r        == route(S, message, t)
      first    == IF r.threw THEN <<>>
                  ELSE <<sendTextMessage(message.from, r.reply[1], sendOk)>>
      error    == IF r.threw THEN Some(TypeError)
                  ELSE IF ~sendOk THEN Some(SendError(r.reply[1]))
                  ELSE Null
      apology  == IF error # Null
                    THEN <<sendTextMessage(message.from,
                                           getTemplate("systemError", <<>>), errOk)>>
                    ELSE <<>>
  IN  [ S |-> r.S, log |-> r.log, sent |-> first \o apology, thrown |-> error ]

(* ------------------------- webhook payloads ---------------------------- *)
\* A payload is [object, entry]; entry is absent (Null) or a list of
\* entries [changes]; changes is absent or a list of changes [field, value];
\* value is [messages, statuses], each absent or a list.

Account == "whatsapp_business_account"

Change(field, messages, statuses) ==
  [field |-> field, value |-> [messages |-> messages, statuses |-> statuses]]

Payload(object, changes) ==
  [object |-> object, entry |-> Some(<<[changes |-> Some(changes)]>>)]

\* A delivery receipt, as handleMessageStatus reads it.
Status == [id |-> "wamid-1", recipient_id |-> "u1", status |-> "delivered"]

\* The result of the payload handled so far; thrown is the error that ended
\* it, if any.
Idle(S) == [S |-> S, log |-> <<>>, sent |-> <<>>, thrown |-> Null]

\* for (const message of change.value.messages) await handleIncomingMessage(message)
RECURSIVE handleMessages(_, _, _, _, _)
handleMessages(acc, messages, t, sendOk, errOk) ==
  IF messages = <<>> \/ acc.thrown # Null
    THEN acc
    ELSE CHOOSE out \in
           { handleMessages([ S      |-> r.S,
                              log    |-> acc.log \o r.log,
                              sent   |-> acc.sent \o r.sent,
                              thrown |-> r.thrown ],
                            Tail(messages), t, sendOk, errOk) :
               r \in { handleIncomingMessage(acc.S, Head(messages), t,
                                             sendOk, errOk) } } : TRUE

\* The body of the loop over entry.changes; handleMessageStatus only logs.
handleChange(acc, change, t, sendOk, errOk) ==
  IF change.field = "messages" /\ change.value.messages # Null
    THEN handleMessages(acc, change.value.messages[1], t, sendOk, errOk)
    ELSE acc

RECURSIVE handleChanges(_, _, _, _, _)
handleChanges(acc, changes, t, sendOk, errOk) ==
  IF changes = <<>> \/ acc.thrown # Null
    THEN acc
    ELSE handleChanges(handleChange(acc, Head(changes), t, sendOk, errOk),
                       Tail(changes), t, sendOk, errOk)

\* The loop over payload.entry; iterating an absent entry.changes throws.
RECURSIVE handleEntries(_, _, _, _, _)
handleEntries(acc, entries, t, sendOk, errOk) ==
  IF entries = <<>> \/ acc.thrown # Null
    THEN acc
    ELSE IF Head(entries).changes = Null
      THEN [acc EXCEPT !.thrown = Some(TypeError)]
      ELSE handleEntries(
             handleChanges(acc, Head(entries).changes[1], t, sendOk, errOk),
             Tail(entries), t, sendOk, errOk)

\* processWebhookPayload; iterating an absent payload.entry throws.
processWebhookPayload(S, payload, t, sendOk, errOk) ==
  IF payload.object # Account
    THEN Idle(S)
    ELSE IF payload.entry = Null
      THEN [Idle(S) EXCEPT !.thrown = Some(TypeError)]
      ELSE handleEntries(Idle(S), payload.entry[1], t, sendOk, errOk)

\* The payloads delivered: one message of any kind, two messages in one
\* change, a receipt, and the shapes without a message to handle.
Payloads ==
  { Payload(Account, <<Change("messages", Some(<<m>>), Null)>>) : m \in Messages }
    \cup
  { Payload(Account,
            <<Change("messages",
                     Some(<<TextMessage("u1", <<" ", "A", "l", " ">>),
                            ImageMessage("u1", "img-42")>>),
                     Some(<<Status>>))>>),
    Payload(Account, <<Change("messages", Null, Some(<<Status>>))>>),
    Payload(Account, <<Change("messages", Null, Null)>>),
    Payload(Account, <<Change("account_update",
                              Some(<<TextMessage("u1", <<"h", "i">>)>>), Null)>>),
    Payload(Account, <<>>),
    [object |-> Account, entry |-> Some(<<>>)],
    [object |-> Account, entry |-> Some(<<[changes |-> Null]>>)],
    [object |-> Account, entry |-> Null],
    Payload("page", <<Change("messages",
                             Some(<<TextMessage("u1", <<"h", "i">>)>>), Null)>>),
    [object |-> "page", entry |-> Null] }

(* ------------------------------ actions -------------------------------- *)

\* What sessions.get(userPhone) holds when an operation starts: nothing, a
\* live session or an expired one, and its step.
Found(S, userPhone, t) ==
  IF ~MapHas(S, userPhone) THEN [state |-> "none", step |-> 0]
  ELSE [ state |-> IF t - S[userPhone].lastActivity > sessionTimeout
                     THEN "expired" ELSE "live",
         step  |-> S[userPhone].step ]

NotFound == [state |-> "none", step |-> 0]

\* What the last operation was called with (op, user, msg), what it found
\* and what came out of it: the value returned, the count returned by the
\* sweep, the completion records logged, the sends attempted and the error
\* it threw (Null when it returned).
Outcome(op, user, msg, found, ret, count, log, sent, thrown) ==
  [ op |-> op, user |-> user, msg |-> msg, found |-> found, ret |-> ret,
    count |-> count, log |-> log, sent |-> sent, thrown |-> thrown ]

Init ==
  /\ sessions = EmptyMap
  /\ now = 0
  /\ last = Outcome("init", "-", NoMsg, NotFound, Null, 0, <<>>, <<>>, Null)
  /\ inflight = <<>>

\* Time passes between two operations.
Tick ==
  \E d \in Elapsed :
    /\ now + d <= MaxTime
    /\ now' = now + d
    /\ last' = Outcome("tick", "-", NoMsg, NotFound, Null, 0, <<>>, <<>>, Null)
    /\ UNCHANGED <<sessions, inflight>>

\* One inbound message; sendOk is whether the send of the reply resolves,
\* errOk whether the send of systemError does.
HandleIncomingMessage ==
  \E message \in Messages, sendOk \in BOOLEAN, errOk \in BOOLEAN :
    /\ sendOk => errOk
    /\ LET r == handleIncomingMessage(sessions, message, now, sendOk, errOk)
       IN  /\ sessions' = r.S
           /\ last' = Outcome("handleIncomingMessage", message.from, message,
                              Found(sessions, message.from, now),
                              Null, 0, r.log, r.sent, r.thrown)
    /\ UNCHANGED <<now, inflight>>

\* The setInterval callback of startCleanupTimer.
CleanupExpiredSessions ==
  LET r == cleanupExpiredSessions(sessions, now)
  IN  /\ sessions' = r.S
      /\ last' = Outcome("cleanupExpiredSessions", "-", NoMsg, NotFound, Null,
                         r.ret, <<>>, <<>>, Null)
      /\ UNCHANGED <<now, inflight>>

\* A method of the store called directly.
StoreCall(op, user, r) ==
  /\ sessions' = r.S
  /\ last' = Outcome(op, user, NoMsg, Found(sessions, user, now), r.ret, 0,
                     r.log, <<>>, Null)
  /\ UNCHANGED <<now, inflight>>

CreateSession ==
  \E u \in Users : StoreCall("createSession", u, createSession(sessions, u, now))

GetSession ==
  \E u \in Users : StoreCall("getSession", u, getSession(sessions, u, now))

AdvanceStep ==
  \E u \in Users : StoreCall("advanceStep", u, advanceStep(sessions, u, now))

CompleteSession ==
  \E u \in Users : StoreCall("completeSession", u, completeSession(sessions, u, now))

ResetSession ==
  \E u \in Users : StoreCall("resetSession", u, resetSession(sessions, u, now))

\* Inbound messages and the hourly sweep only.
MsgNext ==
  \/ Tick
  \/ HandleIncomingMessage
  \/ CleanupExpiredSessions

MsgSpec == Init /\ [][MsgNext]_vars

\* The store's methods called directly as well.
Next ==
  \/ Tick
  \/ HandleIncomingMessage
  \/ CleanupExpiredSessions
  \/ CreateSession
  \/ GetSession
  \/ AdvanceStep
  \/ CompleteSession
  \/ ResetSession

Spec == Init /\ [][Next]_vars

\* The updates of a direct updateSession call.
Updates ==
  { [name |-> <<"A", "l">>],
    [step |-> 3, feedback |-> <<"A", "l">>] }

\* updateSession called directly; the updates are kept in the msg field.
UpdateSession ==
  \E u \in Users, updates \in Updates :
    LET r == updateSession(sessions, u, updates, now)
    IN  /\ sessions' = r.S
        /\ last' = Outcome("updateSession", u, updates,
                           Found(sessions, u, now), r.ret, 0, r.log, <<>>, Null)
        /\ UNCHANGED <<now, inflight>>

\* The methods of the store alone, without the dispatcher.
StoreNext ==
  \/ Tick
  \/ CleanupExpiredSessions
  \/ CreateSession
  \/ GetSession
  \/ UpdateSession
  \/ AdvanceStep
  \/ CompleteSession
  \/ ResetSession

StoreSpec == Init /\ [][StoreNext]_vars

\* One webhook delivery; the payload is kept in the msg field.
ProcessWebhookPayload ==
  \E payload \in Payloads, sendOk \in BOOLEAN, errOk \in BOOLEAN :
    /\ sendOk => errOk
    /\ \E r \in { processWebhookPayload(sessions, payload, now, sendOk, errOk) } :
         /\ sessions' = r.S
         /\ last' = Outcome("processWebhookPayload", "-", payload, NotFound,
                            Null, 0, r.log, r.sent, r.thrown)
    /\ UNCHANGED <<now, inflight>>

\* Webhook deliveries and the hourly sweep.
WebhookNext ==
  \/ Tick
  \/ ProcessWebhookPayload
  \/ CleanupExpiredSessions

WebhookSpec == Init /\ [][WebhookNext]_vars

(* ----------------------- concurrent handlers ---------------------------- *)
\* Several webhook requests are served at once.  A call of
\* handleIncomingMessage runs up to its first await, which is the send of
\* the reply it selected; it resumes when that send settles.

\* Calls of handleIncomingMessage that may be suspended at one time.
MaxInflight == 2

\* The messages of one user, handled concurrently.
ConcMessages == { m \in Messages : m.from = "u1" }

\* A suspended call: the send it awaits (to, response) and the error its
\* catch block holds (Null while the send awaited is that of the reply).
Call(to, response, error) == [to |-> to, response |-> response, error |-> error]

\* handleIncomingMessage up to its first await: the whole of the step
\* handler but the send.  A handler that throws before its send leaves the
\* call in the catch block, awaiting the send of systemError.
beforeAwait(S, message, t) ==
  LET r == route(S, message, t)
  IN  [ S    |-> r.S,
        log  |-> r.log,
        call |-> IF r.threw
                   THEN Call(message.from, getTemplate("systemError", <<>>),
                             Some(TypeError))
                   ELSE Call(message.from, r.reply[1], Null) ]

\* afterAwait that advances the step once the reply has been sent.
afterAwait_AdvancesStep(S, call, t, ok) ==
  IF call.error # Null
    THEN [ S |-> S, call |-> Null, thrown |-> call.error ]
    ELSE IF ok
      THEN [ S |-> advanceStep(S, call.to, t).S, call |-> Null, thrown |-> Null ]
      ELSE [ S      |-> S,
             call   |-> Some(Call(call.to, getTemplate("systemError", <<>>),
                                  Some(SendError(call.response)))),
             thrown |-> Null ]

\* handleIncomingMessage from the await that has settled (ok: resolved) to
\* the next await or to its end: after the reply nothing is left to do; a
\* rejected reply enters the catch block, which sends systemError; after
\* that send, resolved or not, the error caught is rethrown.
afterAwait(S, call, t, ok) ==
  IF call.error # Null
    THEN [ S |-> S, call |-> Null, thrown |-> call.error ]
    ELSE IF ok
      THEN [ S |-> S, call |-> Null, thrown |-> Null ]
      ELSE [ S      |-> S,
             call   |-> Some(Call(call.to, getTemplate("systemError", <<>>),
                                  Some(SendError(call.response)))),
             thrown |-> Null ]

\* The suspended calls once call i has run to its next await or its end.
Resumed(calls, i, next) ==
  SubSeq(calls, 1, i - 1) \o next \o SubSeq(calls, i + 1, Len(calls))

\* A message arrives while other calls are suspended; thrown is the error
\* the call has caught so far.
Start ==
  \E message \in ConcMessages :
    /\ Len(inflight) < MaxInflight
    /\ \E b \in { beforeAwait(sessions, message, now) } :
         /\ sessions' = b.S
         /\ inflight' = Append(inflight, b.call)
         /\ last' = Outcome("handleIncomingMessage", message.from, message,
                            Found(sessions, message.from, now),
                            Null, 0, b.log, <<>>, b.call.error)
    /\ UNCHANGED now

\* The send awaited by one suspended call settles and the call resumes.
Settle ==
  \E i \in 1..Len(inflight), ok \in BOOLEAN :
    /\ \E a \in { afterAwait(sessions, inflight[i], now, ok) } :
         /\ sessions' = a.S
         /\ inflight' = Resumed(inflight, i, a.call)
         /\ last' = Outcome("afterAwait", inflight[i].to, NoMsg, NotFound,
                            Null, 0, <<>>,
                            <<sendTextMessage(inflight[i].to,
                                              inflight[i].response, ok)>>,
                            a.thrown)
    /\ UNCHANGED now

\* Concurrent handlers, the clock and the hourly sweep.
ConcNext ==
  \/ Tick
  \/ Start
  \/ Settle
  \/ CleanupExpiredSessions

ConcSpec == Init /\ [][ConcNext]_vars

(* ------------------------------ claims --------------------------------- *)

\* The user of the last operation and the session stored for that user.
U == last.user

Fields(s) == <<s.step, s.name, s.feedback, s.profileImageUrl>>

FreshFields == <<1, <<>>, <<>>, "">>

\* More than 12 hours have passed at time t since the session was active.
Inactive(s, t) == t - s.lastActivity > 12

\* The bodies that are "hi" once lower-cased and trimmed, and the trimmed
\* form of the others.
TriggerBodies == { <<"h", "i">>, <<" ", "H", "I", " ">> }

Trimmed(b) ==
  CASE b = <<" ", "A", "l", " ">> -> <<"A", "l">>
    [] b = <<" ">> -> <<>>
    [] OTHER -> b

IsMsg(l) == l.op = "handleIncomingMessage"

IsTriggerMsg(l) ==
  IsMsg(l) /\ l.msg.type = "text" /\ l.msg.text[1].body \in TriggerBodies

\* C1: getSession never returns an expired session: the session returned is
\* the one stored, it is not older than 12 hours, and when the stored
\* session had expired at the call it is a new one with step 1 and empty
\* name, feedback and profileImageUrl.
C1_GetNeverExpired ==
  last.op = "getSession" =>
    /\ last.ret # Null
    /\ MapHas(sessions, U) /\ sessions[U] = last.ret[1]
    /\ ~Inactive(last.ret[1], now)
    /\ last.found.state = "expired" =>
         /\ Fields(last.ret[1]) = FreshFields
         /\ last.ret[1].createdAt = now

C1_Witness ==
  /\ last.op = "getSession"
  /\ last.found = [state |-> "expired", step |-> 3]
  /\ last.ret # Null
  /\ last.ret[1].step = 1

\* The step of u can only go down by the "hi" trigger, by the invalid-step
\* reset or because the session had expired.
StepDrops(u) ==
  /\ MapHas(sessions, u)
  /\ MapHas(sessions', u)
  /\ sessions'[u].step < sessions[u].step

ResetOrExpiry(u) ==
  /\ IsMsg(last')
  /\ last'.user = u
  /\ \/ IsTriggerMsg(last')
     \/ sessions[u].step \notin {1, 2, 3}
     \/ Inactive(sessions[u], now)

\* C2 as stated: the stored step of a user never decreases from one
\* operation to the next, except by an explicit reset or an
\* expiry-triggered recreation, and then it becomes exactly 1.
C2_DropIsToOne ==
  [][\A u \in Users :
       StepDrops(u) => ResetOrExpiry(u) /\ sessions'[u].step = 1]_vars

\* C2, amended: as C2, but after an expiry-triggered recreation the step
\* stored is 1, or 2 when the message that found the expired session is a
\* text which the step-1 handler stored as the name.
C2_DropByResetOrExpiry ==
  [][\A u \in Users :
       StepDrops(u) =>
         /\ ResetOrExpiry(u)
         /\ \/ sessions'[u].step = 1
            \/ /\ sessions'[u].step = 2
               /\ Inactive(sessions[u], now)
               /\ ~IsTriggerMsg(last')
               /\ last'.msg.type = "text"
               /\ sessions'[u].createdAt = now']_vars

C2_Witness ==
  /\ IsMsg(last)
  /\ last.found = [state |-> "expired", step |-> 3]
  /\ MapHas(sessions, U)
  /\ sessions[U].step = 2

\* C3: every stored session with step >= 2 has a non-empty name and every
\* stored session with step >= 3 has a non-empty feedback.
C3_FieldsFilled ==
  \A u \in DOMAIN sessions :
    /\ sessions[u].step >= 2 => sessions[u].name # <<>>
    /\ sessions[u].step >= 3 => sessions[u].feedback # <<>>

\* The first send of the last operation carries the template key k with
\* the argument a, and nothing else was sent unless that send failed.
Replied(l, k, a) ==
  /\ l.sent # <<>>
  /\ l.sent[1].to = l.user
  /\ l.sent[1].response = [key |-> k, arg |-> a]
  /\ l.sent[1].ok => Len(l.sent) = 1

\* C4: a text message whose body lower-cased and trimmed is "hi" leaves the
\* user with a session at step 1 with empty name, feedback and
\* profileImageUrl, created now, whatever was stored before; the greeting
\* is the reply and no step handler ran: nothing is stored from the body,
\* no completion record is logged and no other reply is selected.
C4_TriggerResets ==
  IsTriggerMsg(last) =>
    /\ MapHas(sessions, U)
    /\ Fields(sessions[U]) = FreshFields
    /\ sessions[U].createdAt = now
    /\ Replied(last, "greeting", <<>>)
    /\ last.log = <<>>

C4_Witness ==
  /\ IsTriggerMsg(last)
  /\ last.msg.text[1].body = <<" ", "H", "I", " ">>
  /\ last.found = [state |-> "live", step |-> 3]
  /\ MapHas(sessions, U)
  /\ sessions[U].step = 1

\* The last operation handles a message for a stored, non-expired session
\* of user u at step k.
LiveAt(u, k) ==
  /\ IsMsg(last')
  /\ last'.user = u
  /\ MapHas(sessions, u)
  /\ ~Inactive(sessions[u], now)
  /\ sessions[u].step = k

TextBody(l) == l.msg.text[1].body

\* C5: for a non-expired session at step 1 (step 2), a text message that is
\* not the trigger stores the trimmed body in name (feedback), moves the
\* step to 2 (3), leaves the other collected fields and createdAt as they
\* were, and the reply is nameReceived(name) (feedbackReceived).
C5_TextAdvances ==
  [][\A u \in Users :
       /\ ( /\ LiveAt(u, 1)
            /\ last'.msg.type = "text"
            /\ ~IsTriggerMsg(last') )
          => /\ MapHas(sessions', u)
             /\ sessions'[u] =
                  [sessions[u] EXCEPT !.step = 2,
                                      !.name = Trimmed(TextBody(last')),
                                      !.lastActivity = now]
             /\ Replied(last', "nameReceived", Trimmed(TextBody(last')))
       /\ ( /\ LiveAt(u, 2)
            /\ last'.msg.type = "text"
            /\ ~IsTriggerMsg(last') )
          => /\ MapHas(sessions', u)
             /\ sessions'[u] =
                  [sessions[u] EXCEPT !.step = 3,
                                      !.feedback = Trimmed(TextBody(last')),
                                      !.lastActivity = now]
             /\ Replied(last', "feedbackReceived", <<>>)]_vars

C5_Witness ==
  /\ IsMsg(last)
  /\ last.msg.type = "text"
  /\ TextBody(last) = <<" ", "A", "l", " ">>
  /\ last.found = [state |-> "live", step |-> 2]
  /\ MapHas(sessions, U)
  /\ sessions[U].step = 3
  /\ sessions[U].feedback = <<"A", "l">>

\* C6: for a non-expired session at step 3, an image message removes the
\* session from the store and logs one completion record with the name and
\* the feedback of that session and the image id of the message; the reply
\* is completed(name), and a getSession for the user at any later time
\* returns a new session at step 1 with all fields empty.
C6_ImageCompletes ==
  [][\A u \in Users :
       (LiveAt(u, 3) /\ last'.msg.type = "image")
         => /\ ~MapHas(sessions', u)
            /\ Len(last'.log) = 1
            /\ last'.log[1].userPhone = u
            /\ last'.log[1].name = sessions[u].name
            /\ last'.log[1].feedback = sessions[u].feedback
            /\ last'.log[1].profileImageUrl = last'.msg.image[1].id
            /\ Replied(last', "completed", sessions[u].name)
            /\ \A t \in now'..MaxTime :
                 /\ Fields(getSession(sessions', u, t).ret[1]) = FreshFields
                 /\ getSession(sessions', u, t).ret[1].createdAt = t]_vars

C6_Witness ==
  /\ IsMsg(last)
  /\ last.msg.type = "image"
  /\ last.found = [state |-> "live", step |-> 3]
  /\ ~MapHas(sessions, U)
  /\ Len(last.log) = 1
  /\ last.log[1].name = <<"A", "l">>
  /\ last.log[1].profileImageUrl = "img-42"

\* C7: for a stored non-expired session, a message that is no text at step
\* 1 or 2, or a message that is neither an image nor the trigger at step 3,
\* leaves the session present with step, name, feedback, profileImageUrl
\* (and createdAt) unchanged, and the reply is needText (steps 1 and 2) or
\* needImage (step 3).
C7_MismatchNoChange ==
  [][\A u \in Users :
       /\ ((LiveAt(u, 1) \/ LiveAt(u, 2)) /\ last'.msg.type # "text")
          => /\ MapHas(sessions', u)
             /\ sessions'[u] = [sessions[u] EXCEPT !.lastActivity = now]
             /\ Replied(last', "needText", <<>>)
             /\ last'.log = <<>>
       /\ (LiveAt(u, 3) /\ last'.msg.type # "image" /\ ~IsTriggerMsg(last'))
          => /\ MapHas(sessions', u)
             /\ sessions'[u] = [sessions[u] EXCEPT !.lastActivity = now]
             /\ Replied(last', "needImage", <<>>)
             /\ last'.log = <<>>]_vars

C7_Witness ==
  /\ IsMsg(last)
  /\ last.msg.type = "image"
  /\ last.found = [state |-> "live", step |-> 1]
  /\ MapHas(sessions, U)
  /\ sessions[U].step = 1
  /\ Replied(last, "needText", <<>>)

\* C8: when the session stored for a user is at step 2 or 3 and has been
\* inactive for more than 12 hours, the next message of that user is
\* handled exactly as if no session were stored: the store, the reply and
\* the log are those of handling it with the entry absent; the session left
\* is a new one created now, with empty feedback and profileImageUrl, at
\* step 1 with an empty name or at step 2 with the name taken from this
\* message, and the reply is one a user without a session gets.  (Once the
\* sweep has removed the entry the user has no session at all.)
C8_ExpiredIsNewUser ==
  [][\A u \in Users :
       ( /\ IsMsg(last')
         /\ last'.user = u
         /\ MapHas(sessions, u)
         /\ Inactive(sessions[u], now)
         /\ sessions[u].step \in {2, 3} )
       => LET asNew == route(MapDelete(sessions, u), last'.msg, now)
          IN  /\ sessions' = asNew.S
              /\ last'.log = asNew.log
              /\ last'.log = <<>>
              /\ last'.sent[1].response = asNew.reply[1]
              /\ MapHas(sessions', u)
              /\ sessions'[u].createdAt = now
              /\ sessions'[u].feedback = <<>>
              /\ sessions'[u].profileImageUrl = ""
              /\ \/ /\ sessions'[u].step = 1
                    /\ sessions'[u].name = <<>>
                    /\ \/ Replied(last', "greeting", <<>>) /\ IsTriggerMsg(last')
                       \/ Replied(last', "needText", <<>>) /\ last'.msg.type # "text"
                 \/ /\ sessions'[u].step = 2
                    /\ last'.msg.type = "text"
                    /\ sessions'[u].name = Trimmed(TextBody(last'))
                    /\ Replied(last', "nameReceived", sessions'[u].name)]_vars

C8_Witness ==
  /\ IsMsg(last)
  /\ last.msg.type = "image"
  /\ last.found = [state |-> "expired", step |-> 3]
  /\ MapHas(sessions, U)
  /\ sessions[U].step = 1
  /\ sessions[U].name = <<>>
  /\ Replied(last, "needText", <<>>)

\* The stored sessions inactive for more than 12 hours.
ExpiredKeys == {u \in DOMAIN sessions : Inactive(sessions[u], now)}

\* C9: cleanupExpiredSessions deletes exactly the expired sessions, leaves
\* every other session present with every field unchanged (lastActivity
\* included) and returns the number of sessions it deleted.
C9_SweepRemovesExpired ==
  [][last'.op = "cleanupExpiredSessions" =>
       /\ DOMAIN sessions' = DOMAIN sessions \ ExpiredKeys
       /\ \A u \in DOMAIN sessions' : sessions'[u] = sessions[u]
       /\ last'.count = Cardinality(ExpiredKeys)]_vars

C9_Witness ==
  /\ last.op = "cleanupExpiredSessions"
  /\ last.count = 1
  /\ Cardinality(DOMAIN sessions) = 1
  /\ \E u \in DOMAIN sessions : sessions[u].step = 2

\* C10 as stated: advanceStep sets the stored step to min(step + 1, 4), so
\* that a step of 4 stays 4, and no step is ever greater than 4.
C10_AdvanceIsMinPlusOne ==
  [][\A u \in Users :
       (last'.op = "advanceStep" /\ last'.user = u /\ MapHas(sessions, u))
         => /\ MapHas(sessions', u)
            /\ sessions'[u].step = (IF sessions[u].step + 1 < 4
                                      THEN sessions[u].step + 1 ELSE 4)
            /\ sessions'[u].step <= 4]_vars

\* C10, amended: advanceStep sets the step of a stored, non-expired session
\* to min(step + 1, 4), so a step of 4 stays 4 as long as the session has
\* not expired; for a user whose session is absent or expired it leaves a
\* new session at step 2; it returns the stored session, changes no other
\* collected field, and no step is ever greater than 4.
C10_AdvanceClamps ==
  [][\A u \in Users :
       (last'.op = "advanceStep" /\ last'.user = u)
         => /\ MapHas(sessions', u)
            /\ last'.ret = <<sessions'[u]>>
            /\ sessions'[u].step <= 4
            /\ IF MapHas(sessions, u) /\ ~Inactive(sessions[u], now)
                 THEN sessions'[u] =
                        [sessions[u] EXCEPT
                           !.step = (IF sessions[u].step + 1 < 4
                                       THEN sessions[u].step + 1 ELSE 4),
                           !.lastActivity = now]
                 ELSE /\ Fields(sessions'[u]) = <<2, <<>>, <<>>, "">>
                      /\ sessions'[u].createdAt = now]_vars

C10_Witness ==
  /\ last.op = "advanceStep"
  /\ last.found = [state |-> "live", step |-> 4]
  /\ MapHas(sessions, U)
  /\ sessions[U].step = 4

\* C11: createSession leaves and returns a session with step 1 and empty
\* name, feedback and profileImageUrl, created now, whatever was stored for
\* the user before; a getSession of the same user that follows it directly
\* returns that session: step 1, empty fields and the createdAt of the
\* session created.
C11_CreateThenGet ==
  [][\A u \in Users :
       /\ (last'.op = "createSession" /\ last'.user = u)
          => /\ MapHas(sessions', u)
             /\ last'.ret = <<sessions'[u]>>
             /\ Fields(sessions'[u]) = FreshFields
             /\ sessions'[u].createdAt = now
       /\ ( /\ last.op = "createSession" /\ last.user = u
            /\ last'.op = "getSession" /\ last'.user = u )
          => /\ last'.ret # Null
             /\ Fields(last'.ret[1]) = FreshFields
             /\ last'.ret[1].createdAt = last.ret[1].createdAt
             /\ sessions'[u] = last'.ret[1]]_vars

C11_Witness ==
  /\ last.op = "createSession"
  /\ last.found = [state |-> "live", step |-> 3]
  /\ MapHas(sessions, U)
  /\ sessions[U].step = 1
  /\ sessions[U].createdAt = 12

\* The last operation completes the session of u: completeSession called
\* for a stored session, or an image handled for a stored, non-expired
\* session at step 3.
Completes(u) ==
  /\ last'.user = u
  /\ MapHas(sessions, u)
  /\ \/ last'.op = "completeSession"
     \/ /\ IsMsg(last')
        /\ last'.msg.type = "image"
        /\ ~Inactive(sessions[u], now)
        /\ sessions[u].step = 3

\* C12: a completion record is logged exactly when a session is completed,
\* and then exactly one: completeSession for a stored session logs one
\* record of that session, deletes the entry and returns the session;
\* completeSession for a user without a session returns null, logs nothing
\* and leaves the store as it is; a message logs one record when it is an
\* image for a live session at step 3, which it removes, and none
\* otherwise; no other operation logs a record.
C12_OneRecordPerCompletion ==
  [][\A u \in Users :
       /\ Completes(u)
          => /\ Len(last'.log) = 1
             /\ last'.log[1].userPhone = u
             /\ last'.log[1].name = sessions[u].name
             /\ last'.log[1].feedback = sessions[u].feedback
             /\ ~MapHas(sessions', u)
       /\ (last'.op = "completeSession" /\ last'.user = u /\ MapHas(sessions, u))
          => /\ last'.ret = <<sessions[u]>>
             /\ last'.log[1].profileImageUrl = sessions[u].profileImageUrl
       /\ (last'.op = "completeSession" /\ last'.user = u /\ ~MapHas(sessions, u))
          => /\ last'.ret = Null
             /\ sessions' = sessions
       /\ (last'.user = u /\ ~Completes(u)) => last'.log = <<>>
       /\ last'.user \notin Users => last'.log = <<>>]_vars

C12_Witness ==
  /\ last.op = "completeSession"
  /\ last.found = [state |-> "live", step |-> 2]
  /\ ~MapHas(sessions, U)
  /\ Len(last.log) = 1
  /\ last.log[1].name = <<"A", "l">>

\* C14: when a message finds a stored, non-expired session whose step is
\* not 1, 2 or 3, then whatever the type of the message the session is left
\* at step 1 with name, feedback and profileImageUrl empty, the reply is
\* the greeting, nothing is logged and nothing of the message is stored.
C14_InvalidStepResets ==
  [][\A u \in Users :
       ( /\ IsMsg(last')
         /\ last'.user = u
         /\ MapHas(sessions, u)
         /\ ~Inactive(sessions[u], now)
         /\ sessions[u].step \notin {1, 2, 3} )
       => /\ MapHas(sessions', u)
          /\ Fields(sessions'[u]) = FreshFields
          /\ Replied(last', "greeting", <<>>)
          /\ last'.log = <<>>]_vars

C14_Witness ==
  /\ IsMsg(last)
  /\ last.msg.type = "text"
  /\ TextBody(last) = <<" ", "A", "l", " ">>
  /\ last.found = [state |-> "live", step |-> 4]
  /\ MapHas(sessions, U)
  /\ Fields(sessions[U]) = FreshFields
  /\ sessions[U].createdAt = 0
  /\ now = 12

\* C13: updateSession for a user without a session does not raise: it
\* creates a session with step 1 and empty fields, returns it, and applies
\* none of the updates; resetSession for a user without a session likewise
\* leaves a session with step 1 and empty fields.
C13_UpdateAbsentCreates ==
  [][\A u \in Users :
       ( /\ last'.op \in {"updateSession", "resetSession"}
         /\ last'.user = u
         /\ ~MapHas(sessions, u) )
       => /\ last'.thrown = Null
          /\ MapHas(sessions', u)
          /\ last'.ret = <<sessions'[u]>>
          /\ Fields(sessions'[u]) = FreshFields
          /\ sessions'[u].createdAt = now
          /\ sessions'[u].lastActivity = now
          /\ \A v \in DOMAIN sessions : sessions'[v] = sessions[v]]_vars

C13_Witness ==
  /\ last.op = "updateSession"
  /\ last.msg = [step |-> 3, feedback |-> <<"A", "l">>]
  /\ last.found.state = "none"
  /\ MapHas(sessions, U)
  /\ Fields(sessions[U]) = FreshFields

SystemError == [key |-> "systemError", arg |-> <<>>]

\* C15: when handling a message fails (here: the send of the reply is
\* rejected), systemError is sent once, to the sender of the message, and
\* the error thrown to the caller is the original one, also when the send
\* of systemError is rejected too; when nothing fails, systemError is not
\* sent and nothing is thrown.
C15_NoticeThenRethrow ==
  IsMsg(last) =>
    /\ last.sent # <<>>
    /\ last.sent[1].response # SystemError
    /\ IF last.sent[1].ok
         THEN /\ Len(last.sent) = 1
              /\ last.thrown = Null
         ELSE /\ Len(last.sent) = 2
              /\ last.sent[2].to = last.msg.from
              /\ last.sent[2].response = SystemError
              /\ last.thrown =
                   <<[error |-> "sendFailed", response |-> last.sent[1].response]>>

C15_Witness ==
  /\ IsMsg(last)
  /\ Len(last.sent) = 2
  /\ ~last.sent[2].ok
  /\ last.thrown # Null
  /\ last.thrown[1].response.key = "feedbackReceived"

\* The send of the reply of the last operation was rejected: systemError
\* was sent to the user next and the rejection was thrown to the caller.
ReplyFailed(l) ==
  /\ Len(l.sent) = 2
  /\ ~l.sent[1].ok
  /\ l.sent[2].to = l.user
  /\ l.sent[2].response = SystemError
  /\ l.thrown = <<[error |-> "sendFailed", response |-> l.sent[1].response]>>

FirstSendFails(l) == l.sent # <<>> /\ ~l.sent[1].ok

\* C20: a rejected send does not undo what the message did: after a text
\* for a live session at step 1 (step 2) the session is at step 2 (3) with
\* the name (feedback) stored, and after an image for a live session at
\* step 3 the session is deleted and its completion record logged, exactly
\* as when the send resolves; systemError is sent to the user and the
\* rejection is thrown to the caller.
C20_SendFailureKeepsState ==
  [][\A u \in Users :
       /\ ( /\ LiveAt(u, 1)
            /\ last'.msg.type = "text"
            /\ ~IsTriggerMsg(last')
            /\ FirstSendFails(last') )
          => /\ MapHas(sessions', u)
             /\ sessions'[u] =
                  [sessions[u] EXCEPT !.step = 2,
                                      !.name = Trimmed(TextBody(last')),
                                      !.lastActivity = now]
             /\ last'.sent[1].response.key = "nameReceived"
             /\ ReplyFailed(last')
       /\ ( /\ LiveAt(u, 2)
            /\ last'.msg.type = "text"
            /\ ~IsTriggerMsg(last')
            /\ FirstSendFails(last') )
          => /\ MapHas(sessions', u)
             /\ sessions'[u] =
                  [sessions[u] EXCEPT !.step = 3,
                                      !.feedback = Trimmed(TextBody(last')),
                                      !.lastActivity = now]
             /\ last'.sent[1].response.key = "feedbackReceived"
             /\ ReplyFailed(last')
       /\ ( /\ LiveAt(u, 3)
            /\ last'.msg.type = "image"
            /\ FirstSendFails(last') )
          => /\ ~MapHas(sessions', u)
             /\ Len(last'.log) = 1
             /\ last'.log[1].name = sessions[u].name
             /\ last'.log[1].feedback = sessions[u].feedback
             /\ last'.log[1].profileImageUrl = last'.msg.image[1].id
             /\ last'.sent[1].response.key = "completed"
             /\ ReplyFailed(last')]_vars

C20_Witness ==
  /\ IsMsg(last)
  /\ last.msg.type = "image"
  /\ last.found = [state |-> "live", step |-> 3]
  /\ ReplyFailed(last)
  /\ last.sent[2].ok
  /\ ~MapHas(sessions, U)
  /\ Len(last.log) = 1

\* C19: from the empty store, under inbound messages and sweeps alone,
\* every stored session has step 1, 2 or 3, and no message finds a session
\* with another step, so the invalid-step branch is never taken.
C19_StepsOneToThree ==
  /\ \A u \in DOMAIN sessions : sessions[u].step \in {1, 2, 3}
  /\ IsMsg(last) => last.found.step \in {0, 1, 2, 3}

C19_Witness ==
  /\ IsMsg(last)
  /\ last.msg.type = "audio"
  /\ last.found = [state |-> "live", step |-> 3]
  /\ MapHas(sessions, U)
  /\ sessions[U].step = 3
  /\ \E v \in DOMAIN sessions : v # U /\ sessions[v].step = 2

\* The payload has nothing to handle: another object, or no entry, or in
\* every entry no changes, or only changes whose field is not "messages"
\* or whose value has neither messages nor statuses.
NothingToHandle(p) ==
  \/ p.object # "whatsapp_business_account"
  \/ p.entry = Null
  \/ \A i \in 1..Len(p.entry[1]) :
       \/ p.entry[1][i].changes = Null
       \/ \A j \in 1..Len(p.entry[1][i].changes[1]) :
            LET c == p.entry[1][i].changes[1][j]
            IN  \/ c.field # "messages"
                \/ c.value.messages = Null /\ c.value.statuses = Null

\* C16: processWebhookPayload ignores every payload that has nothing to
\* handle: it does not raise, sends nothing and leaves the store as it is.
C16_IgnoresOtherPayloads ==
  [][(last'.op = "processWebhookPayload" /\ NothingToHandle(last'.msg))
       => /\ last'.thrown = Null
          /\ last'.sent = <<>>
          /\ last'.log = <<>>
          /\ sessions' = sessions]_vars

\* The last step resumed a suspended call after its await.
IsResume(l) == l.op = "afterAwait"

\* C17: with several calls for one user suspended at their awaits, a call
\* reads and changes the store only before its first await: resuming a call
\* leaves the store as it is, and a call that starts leaves the store and
\* the completion log exactly as handling its message alone, from the store
\* it found, would.  So the store is always the one that handling the
\* messages one after another in the order their calls started gives: a
\* text at step 1 or 2 is stored and advances the step by one whatever is
\* suspended, and the step goes down only by a reset or after expiry.
C17_CallsRunOneAfterAnother ==
  [][/\ IsResume(last') => sessions' = sessions
     /\ IsMsg(last') =>
          LET alone == handleIncomingMessage(sessions, last'.msg, now, TRUE, TRUE)
          IN  /\ sessions' = alone.S
              /\ last'.log = alone.log
     /\ \A u \in Users :
          /\ StepDrops(u) => ResetOrExpiry(u)
          /\ (LiveAt(u, 1) /\ ~IsTriggerMsg(last') /\ last'.msg.type = "text") =>
               /\ sessions'[u].step = 2
               /\ sessions'[u].name = Trimmed(last'.msg.text[1].body)
          /\ (LiveAt(u, 2) /\ ~IsTriggerMsg(last') /\ last'.msg.type = "text") =>
               /\ sessions'[u].step = 3
               /\ sessions'[u].name = sessions[u].name
               /\ sessions'[u].feedback = Trimmed(last'.msg.text[1].body)]_vars

\* Two calls suspended at the sends of their replies, the name and the
\* feedback both stored, and one of the calls resumed.
C17_Witness ==
  /\ IsResume(last)
  /\ last.sent[1].response.key = "nameReceived"
  /\ Len(inflight) = 1
  /\ inflight[1].response.key = "feedbackReceived"
  /\ inflight[1].error = Null
  /\ MapHas(sessions, "u1")
  /\ sessions["u1"].step = 3
  /\ sessions["u1"].name = <<"A", "l">>
  /\ sessions["u1"].feedback = <<"A", "l">>

\* C18: in handleImageCollection completeSession never returns null: with
\* calls suspended and the sweep running in between, no call ever catches
\* the TypeError of reading completedSession.name, and an image at step 3
\* completes the session found: one record is logged, the entry is removed
\* and the call awaits the send of the completed reply.
C18_CompleteFindsSession ==
  /\ \A i \in 1..Len(inflight) : inflight[i].error # Some(TypeError)
  /\ last.thrown # Some(TypeError)
  /\ (IsMsg(last) /\ last.msg.type = "image" /\ last.found.step = 3
        /\ last.found.state = "live") =>
       /\ Len(last.log) = 1
       /\ ~MapHas(sessions, U)
       /\ inflight[Len(inflight)].response.key = "completed"
       /\ inflight[Len(inflight)].response.arg = last.log[1].name

\* An image completes the session while the call that stored the feedback
\* is still suspended.
C18_Witness ==
  /\ IsMsg(last)
  /\ last.msg.type = "image"
  /\ last.found = [state |-> "live", step |-> 3]
  /\ Len(last.log) = 1
  /\ Len(inflight) = 2
  /\ inflight[1].response.key = "feedbackReceived"
  /\ inflight[2].response.key = "completed"

====
